---- MODULE Spec2Model ----
(***************************************************************************)
(* Model of src/utils/printer.py: the option registry (four SimpleNamespace *)
(* groups of string constants) and UsagePrinter.print_usage(), which       *)
(* evaluates one f-string against the registry and prints the result.      *)
(*                                                                         *)
(* Text is modelled character by character with TLA+ strings.  The module  *)
(* language accepts ASCII only, so every non-ASCII code point of the       *)
(* template's literal text (the Japanese headings and descriptions, the    *)
(* emoji of the banner) is written as one "?": positions and lengths are   *)
(* kept, and no ASCII token is introduced or removed by the substitution.  *)
(***************************************************************************)
EXTENDS Integers, Sequences, FiniteSets, TLC

VARIABLES
    registry,   \* module globals: group name -> (attribute name -> string)
    stdout,     \* the blocks written to standard output, in order
    outcomes,   \* one record per finished call of print_usage()
    reads       \* the attribute reads made by client code, in order

vars == << registry, stdout, outcomes, reads >>

\* Bounds of the exploration.
MaxCalls == 2
MaxReads == 2

----------------------------------------------------------------------------
\* The option registry (printer.py lines 4-29).

CommandArgs ==
    [ SOURCE   |-> "--source",
      ANALYSIS |-> "--analysis",
      DELIVERY |-> "--delivery",
      DAYS     |-> "--days",
      SCHEDULE |-> "--schedule",
      HELP     |-> "--help" ]

DataSources ==
    [ DATABASE_ENTRIES |-> "database_entries",
      RECENT_DOCUMENTS |-> "recent_documents" ]

AnalysisTypes_dup ==
    [ DOMI |-> "domi",
      AGA  |-> "domi" ]

AnalysisTypes ==
    [ DOMI |-> "domi",
      AGA  |-> "aga" ]

DeliveryMethods ==
    [ CONSOLE    |-> "console",
      EMAIL_TEXT |-> "email_text",
      EMAIL_HTML |-> "email_html",
      FILE_TEXT  |-> "file_text",
      FILE_HTML  |-> "file_html" ]

\* The module namespace after import: the four groups by name.
ModuleGlobals ==
    [ CommandArgs     |-> CommandArgs,
      DataSources     |-> DataSources,
      AnalysisTypes   |-> AnalysisTypes,
      DeliveryMethods |-> DeliveryMethods ]

\* hasattr(group, key) on a SimpleNamespace: the key is one of its attributes.
HasAttr(reg, grp, key) == key \in DOMAIN reg[grp]

----------------------------------------------------------------------------
\* The f-string of print_usage (printer.py lines 37-61), as written: a
\* sequence of lines, each a sequence of parts.  A part is literal text or a
\* replacement field {Group.KEY}.

Lit(s) == [lit |-> s]
Field(g, k) == [grp |-> g, key |-> k]
IsLit(p) == "lit" \in DOMAIN p
IsField(p) == "grp" \in DOMAIN p

\* Lines 37-42: the text after the opening quotes, banner and synopsis.
BannerLines ==
    << <<  >>,
       << Lit("? Pickles - Personal Insight Analytics System") >>,
       <<  >>,
       << Lit("????:") >>,
       << Lit("  python main.py [?????]") >>,
       <<  >> >>

\* OptionLines with the --help line lost.
OptionLines_noHelp ==
    << << Lit("?????:") >>,
       << Lit("  "), Field("CommandArgs", "SOURCE"), Lit("         ?????? ("), Field("DataSources", "DATABASE_ENTRIES"), Lit(" | "), Field("DataSources", "RECENT_DOCUMENTS"), Lit(")") >>,
       << Lit("  "), Field("CommandArgs", "ANALYSIS"), Lit("       ????? ("), Field("AnalysisTypes", "DOMI"), Lit(" | "), Field("AnalysisTypes", "AGA"), Lit(")") >>,
       << Lit("  "), Field("CommandArgs", "DELIVERY"), Lit("       ???? ("), Field("DeliveryMethods", "CONSOLE"), Lit(","), Field("DeliveryMethods", "EMAIL_TEXT"), Lit(","), Field("DeliveryMethods", "EMAIL_HTML"), Lit(","), Field("DeliveryMethods", "FILE_TEXT"), Lit(","), Field("DeliveryMethods", "FILE_HTML"), Lit(")") >>,
       << Lit("  "), Field("CommandArgs", "DAYS"), Lit("          ???? (?????: 7)") >>,
       << Lit("  "), Field("CommandArgs", "SCHEDULE"), Lit("      ???????") >>,
       <<  >> >>

\* Lines 43-50: the options heading, one line per flag, a blank line.
OptionLines ==
    << << Lit("?????:") >>,
       << Lit("  "), Field("CommandArgs", "SOURCE"), Lit("         ?????? ("), Field("DataSources", "DATABASE_ENTRIES"), Lit(" | "), Field("DataSources", "RECENT_DOCUMENTS"), Lit(")") >>,
       << Lit("  "), Field("CommandArgs", "ANALYSIS"), Lit("       ????? ("), Field("AnalysisTypes", "DOMI"), Lit(" | "), Field("AnalysisTypes", "AGA"), Lit(")") >>,
       << Lit("  "), Field("CommandArgs", "DELIVERY"), Lit("       ???? ("), Field("DeliveryMethods", "CONSOLE"), Lit(","), Field("DeliveryMethods", "EMAIL_TEXT"), Lit(","), Field("DeliveryMethods", "EMAIL_HTML"), Lit(","), Field("DeliveryMethods", "FILE_TEXT"), Lit(","), Field("DeliveryMethods", "FILE_HTML"), Lit(")") >>,
       << Lit("  "), Field("CommandArgs", "DAYS"), Lit("          ???? (?????: 7)") >>,
       << Lit("  "), Field("CommandArgs", "SCHEDULE"), Lit("      ???????") >>,
       << Lit("  "), Field("CommandArgs", "HELP"), Lit("          ????????") >>,
       <<  >> >>

\* Lines 51-60: the examples heading and the example lines, with the
\* conflict markers of lines 52, 55 and 58, which are text of the f-string.
ExampleLines ==
    << << Lit("?:") >>,
       << Lit("<<<<<<< HEAD") >>,
       << Lit("  python main.py                                                                # ?????: "), Field("DataSources", "DATABASE_ENTRIES") >>,
       << Lit("  python main.py "), Field("CommandArgs", "SOURCE"), Lit(" "), Field("DataSources", "RECENT_DOCUMENTS"), Lit(" "), Field("CommandArgs", "ANALYSIS"), Lit(" "), Field("AnalysisTypes", "DOMI") >>,
       << Lit("=======") >>,
       << Lit("  python main.py                                                                # ?????: "), Field("DataSources", "RECENT_DOCUMENTS") >>,
       << Lit("  python main.py "), Field("CommandArgs", "SOURCE"), Lit(" "), Field("DataSources", "RECENT_DOCUMENTS"), Lit(" "), Field("CommandArgs", "ANALYSIS"), Lit(" "), Field("AnalysisTypes", "COMPREHENSIVE") >>,
       << Lit(">>>>>>> 5a55b1e (feat: ???????notion??????????????????)") >>,
       << Lit("  python main.py "), Field("CommandArgs", "DELIVERY"), Lit(" "), Field("DeliveryMethods", "CONSOLE"), Lit(","), Field("DeliveryMethods", "FILE_HTML"), Lit(" "), Field("CommandArgs", "DAYS"), Lit(" 14") >>,
       << Lit("  python main.py "), Field("CommandArgs", "SCHEDULE") >> >>

\* Line 61: the indentation before the closing quotes.
FooterLines ==
    << << Lit("        ") >> >>

TemplateLines == BannerLines \o OptionLines \o ExampleLines \o FooterLines

\* The lines of a triple-quoted literal are separated by newline characters:
\* the parts of lines lo..hi, in order, with a newline between two lines.
RECURSIVE JoinLines(_, _, _)
JoinLines(ls, lo, hi) ==
    IF lo > hi THEN << >>
    ELSE IF lo = hi THEN ls[lo]
    ELSE LET mid == (lo + hi) \div 2 IN
         JoinLines(ls, lo, mid) \o << Lit("\n") >> \o JoinLines(ls, mid + 1, hi)

\* The f-string as the interpreter sees it: literal text and fields, in order.
Template == JoinLines(TemplateLines, 1, Len(TemplateLines))

----------------------------------------------------------------------------
\* Evaluation of an f-string: the parts are evaluated left to right; a
\* literal is appended as it is, a field is looked up with getattr and the
\* string it yields is appended.  getattr of a missing attribute raises
\* AttributeError, which abandons the evaluation: no string is produced.

\* The parts whose evaluation raises: fields naming a missing attribute.
Failing(reg, parts) ==
    { i \in 1..Len(parts) :
        IsField(parts[i]) /\ ~HasAttr(reg, parts[i].grp, parts[i].key) }

\* The part at which the left-to-right evaluation stops: the first failing
\* one, or the last part when none fails.
LastEvaluated(reg, parts) ==
    IF Failing(reg, parts) = {} THEN Len(parts)
    ELSE CHOOSE i \in Failing(reg, parts) :
             \A j \in Failing(reg, parts) : i <= j

\* The string a part contributes.
PartText(reg, p) == IF IsLit(p) THEN p.lit ELSE reg[p.grp][p.key]

\* The concatenation of the strings of parts lo..hi, in order.  (Halving the
\* range keeps the nesting shallow; \o is associative, so the result is the
\* left-to-right concatenation.)
RECURSIVE Concat(_, _, _, _)
Concat(reg, parts, lo, hi) ==
    IF lo > hi THEN ""
    ELSE IF lo = hi THEN PartText(reg, parts[lo])
    ELSE LET mid == (lo + hi) \div 2 IN
         Concat(reg, parts, lo, mid) \o Concat(reg, parts, mid + 1, hi)

\* The outcome of evaluating the f-string: the exception raised ("none" when
\* it completes), the string produced, and the attribute lookups made, in
\* order, the failing one included.
Format(reg, parts) ==
    LET n == LastEvaluated(reg, parts)
        ok == Failing(reg, parts) = {}
    IN  [ raised  |-> IF ok THEN "none" ELSE "AttributeError",
          text    |-> IF ok THEN Concat(reg, parts, 1, n) ELSE "",
          lookups |-> SelectSeq(SubSeq(parts, 1, n), IsField) ]

\* print(usage) writes the string followed by a newline, as one block.
PrintBlock(text) == text \o "\n"

----------------------------------------------------------------------------
\* The state after the module is imported: the registry is built, nothing
\* has been printed, read or called.
Init ==
    /\ registry = ModuleGlobals
    /\ stdout = << >>
    /\ outcomes = << >>
    /\ reads = << >>

\* Client code reads an attribute of a group (Group.KEY): the only operation
\* of the registry.  Keys are written in the client's source, so they are
\* attributes the group defines.
ReadOption(grp, key) ==
    /\ Len(reads) < MaxReads
    /\ HasAttr(registry, grp, key)
    /\ reads' = Append(reads, [grp |-> grp, key |-> key,
                               value |-> registry[grp][key]])
    /\ UNCHANGED << registry, stdout, outcomes >>

\* print_usage that returns early, silently, once it has been called.
print_usage_once ==
    /\ Len(outcomes) < MaxCalls
    /\ LET r == IF Len(outcomes) = 0
                THEN Format(registry, Template)
                ELSE [raised |-> "none", text |-> "", lookups |-> << >>]
           w == IF r.raised = "none" /\ Len(outcomes) = 0
                THEN << PrintBlock(r.text) >> ELSE << >>
       IN  /\ outcomes' = Append(outcomes,
                                 [raised   |-> r.raised,
                                  returned |-> IF r.raised = "none"
                                               THEN "None" ELSE "nothing",
                                  written  |-> w,
                                  lookups  |-> r.lookups])
           /\ stdout' = stdout \o w
    /\ UNCHANGED << registry, reads >>

\* UsagePrinter.print_usage(): evaluate the f-string, then print it.  When
\* the evaluation raises, the exception leaves the method before print is
\* reached: nothing is written and no value is returned.
print_usage ==
    /\ Len(outcomes) < MaxCalls
    /\ LET r == Format(registry, Template)
           w == IF r.raised = "none" THEN << PrintBlock(r.text) >> ELSE << >>
       IN  /\ outcomes' = Append(outcomes,
                                 [raised   |-> r.raised,
                                  returned |-> IF r.raised = "none"
                                               THEN "None" ELSE "nothing",
                                  written  |-> w,
                                  lookups  |-> r.lookups])
           /\ stdout' = stdout \o w
    /\ UNCHANGED << registry, reads >>

Next ==
    \/ \E grp \in DOMAIN registry : \E key \in DOMAIN registry[grp] :
           ReadOption(grp, key)
    \/ print_usage

Spec == Init /\ [][Next]_vars

----------------------------------------------------------------------------
\* Vocabulary of the properties: text as the user sees it.

StartsWith(p, s) == Len(p) <= Len(s) /\ SubSeq(s, 1, Len(p)) = p
OccursAt(t, s, i) ==
    i >= 1 /\ i + Len(t) - 1 <= Len(s) /\ SubSeq(s, i, i + Len(t) - 1) = t
Positions(t, s) == { i \in 1..(Len(s) - Len(t) + 1) : OccursAt(t, s, i) }
Occurs(t, s) == Positions(t, s) # {}
Count(t, s) == Cardinality(Positions(t, s))

\* The lines of a text: the stretches between its newline characters.
Newlines(s) == { i \in 1..Len(s) : SubSeq(s, i, i) = "\n" }
Lines(s) ==
    LET nl == Newlines(s)
        nth(k) == CHOOSE p \in nl : Cardinality({ q \in nl : q < p }) = k - 1
    IN  [ k \in 1..(Cardinality(nl) + 1) |->
            SubSeq(s, IF k = 1 THEN 1 ELSE nth(k - 1) + 1,
                      IF k = Cardinality(nl) + 1 THEN Len(s) ELSE nth(k) - 1) ]

Calls == 1..Len(outcomes)
\* What call i wrote to standard output, as one text and as lines.
Output(i) == IF outcomes[i].written = << >> THEN "" ELSE outcomes[i].written[1]
OutputLines(i) ==
    IF outcomes[i].written = << >> THEN << >> ELSE Lines(outcomes[i].written[1])
Values(grp) == { registry[grp][k] : k \in DOMAIN registry[grp] }
Flags == DOMAIN registry.CommandArgs

IsFlagLine(l) == StartsWith("  --", l)
IsInvocation(l) == StartsWith("  python main.py", l)
Digits == { "0", "1", "2", "3", "4", "5", "6", "7", "8", "9" }

\* The references to the flag of key k in a stretch of template lines: the
\* fields naming the key, and the places of literal text spelling its token.
FlagRefs(ls, k) ==
    UNION { UNION { IF IsLit(ls[l][j])
                    THEN { << l, j, pos >> :
                             pos \in Positions(CommandArgs[k], ls[l][j].lit) }
                    ELSE IF ls[l][j] = Field("CommandArgs", k)
                    THEN { << l, j, 0 >> }
                    ELSE {} : j \in 1..Len(ls[l]) } : l \in 1..Len(ls) }
\* Their number, per flag, in the options section and in the whole template.
OptionFlagRefs ==
    [ k \in DOMAIN CommandArgs |-> Cardinality(FlagRefs(OptionLines, k)) ]
TemplateFlagRefs ==
    [ k \in DOMAIN CommandArgs |-> Cardinality(FlagRefs(TemplateLines, k)) ]

\* How often call i looked up Group.KEY.
NumLookups(i, g, k) ==
    Cardinality({ j \in 1..Len(outcomes[i].lookups) :
                    outcomes[i].lookups[j] = Field(g, k) })

----------------------------------------------------------------------------
\* C1: every call of print_usage() completes without raising, writes the
\* usage block to standard output exactly once, and returns no value (None).
C1_EveryCallPrintsOnce ==
    /\ Len(stdout) = Len(outcomes)
    /\ \A i \in Calls :
         /\ outcomes[i].raised = "none"
         /\ Len(outcomes[i].written) = 1
         /\ outcomes[i].returned = "None"

C3_OutputNamesSourcesAndAnalyses ==
    \A i \in Calls :
        \A v \in Values("DataSources") \cup Values("AnalysisTypes") :
            Occurs(v, Output(i))

\* C4: the text a call prints holds every DeliveryMethods value at least
\* once, and an example line with the delivery flag holds them comma-joined,
\* literally console,file_html.
C4_OutputNamesDeliveryMethods ==
    \A i \in Calls :
        /\ \A v \in Values("DeliveryMethods") : Occurs(v, Output(i))
        /\ \E n \in DOMAIN OutputLines(i) :
             LET l == OutputLines(i)[n] IN
             /\ IsInvocation(l)
             /\ Occurs(registry.CommandArgs.DELIVERY, l)
             /\ Occurs("console,file_html", l)

\* C5: in every reachable state each group maps its keys to non-empty
\* strings, pairwise distinct within the group, equal to the values fixed at
\* initialization; all reads of one key yield the same value.
C5_RegistryImmutable ==
    /\ registry = ModuleGlobals
    /\ \A g \in DOMAIN registry : \A k \in DOMAIN registry[g] :
         /\ Len(registry[g][k]) > 0
         /\ \A k2 \in DOMAIN registry[g] :
              k # k2 => registry[g][k] # registry[g][k2]
    /\ \A i, j \in 1..Len(reads) :
         (reads[i].grp = reads[j].grp /\ reads[i].key = reads[j].key)
             => reads[i].value = reads[j].value
    /\ \A i \in 1..Len(reads) :
         reads[i].value = registry[reads[i].grp][reads[i].key]

\* The same key has been read twice, after a call of print_usage().
C5_Witness ==
    /\ Len(outcomes) >= 1
    /\ \E i, j \in 1..Len(reads) :
         i < j /\ reads[i].grp = reads[j].grp /\ reads[i].key = reads[j].key

C7_OptionLinesInOrder ==
    \A i \in Calls :
        LET fl == SelectSeq(OutputLines(i), IsFlagLine)
            ca == registry.CommandArgs
            ds == registry.DataSources
            at == registry.AnalysisTypes
            dm == registry.DeliveryMethods
        IN  /\ Len(fl) = 6
            /\ StartsWith("  " \o ca.SOURCE \o " ", fl[1])
            /\ Occurs(ds.DATABASE_ENTRIES \o " | " \o ds.RECENT_DOCUMENTS, fl[1])
            /\ StartsWith("  " \o ca.ANALYSIS \o " ", fl[2])
            /\ Occurs(at.DOMI \o " | " \o at.AGA, fl[2])
            /\ StartsWith("  " \o ca.DELIVERY \o " ", fl[3])
            /\ Occurs(dm.CONSOLE \o "," \o dm.EMAIL_TEXT \o "," \o dm.EMAIL_HTML
                        \o "," \o dm.FILE_TEXT \o "," \o dm.FILE_HTML, fl[3])
            /\ StartsWith("  " \o ca.DAYS \o " ", fl[4])
            /\ \E p \in Positions("7", fl[4]) : p > Len("  " \o ca.DAYS)
            /\ StartsWith("  " \o ca.SCHEDULE \o " ", fl[5])
            /\ \A v \in Values("DataSources") \cup Values("AnalysisTypes")
                      \cup Values("DeliveryMethods") \cup Digits :
                   ~Occurs(v, fl[5])
            /\ StartsWith("  " \o ca.HELP \o " ", fl[6])

\* C8: the printed text holds an example line for each of: the program with
\* no flags and its default data source; --source and --analysis, each with
\* a defined value; --delivery with comma-joined values and a --days
\* override; --schedule alone.
C8_ExampleLinesPresent ==
    \A i \in Calls :
        LET ls == OutputLines(i)
            ca == registry.CommandArgs
            has(P(_)) == \E n \in DOMAIN ls : IsInvocation(ls[n]) /\ P(ls[n])
            noFlags(l) ==
                /\ \A f \in Values("CommandArgs") : ~Occurs(f, l)
                /\ \E v \in Values("DataSources") : Occurs(v, l)
            sourceAnalysis(l) ==
                /\ \E v \in Values("DataSources") :
                       Occurs(ca.SOURCE \o " " \o v, l)
                /\ \E v \in Values("AnalysisTypes") :
                       Occurs(ca.ANALYSIS \o " " \o v, l)
            deliveryDays(l) ==
                /\ \E v, w \in Values("DeliveryMethods") :
                       Occurs(ca.DELIVERY \o " " \o v \o "," \o w, l)
                /\ \E d \in Digits : Occurs(ca.DAYS \o " " \o d, l)
            scheduleOnly(l) == l = "  python main.py " \o ca.SCHEDULE
        IN  /\ has(noFlags)
            /\ has(sourceAnalysis)
            /\ has(deliveryDays)
            /\ has(scheduleOnly)

\* C9: the template a call evaluates documents one default data source,
\* database_entries: every invocation line without a flag that names a data
\* source names DataSources.DATABASE_ENTRIES, and none names
\* recent_documents.
C9_DefaultIsDatabaseEntries ==
    LET noFlag == { n \in 1..Len(TemplateLines) :
                      LET l == TemplateLines[n] IN
                      /\ Len(l) >= 2
                      /\ IsLit(l[1]) /\ IsInvocation(l[1].lit)
                      /\ \A j \in 1..Len(l) :
                           IsField(l[j]) => l[j].grp = "DataSources" }
    IN  \A i \in Calls :
            /\ noFlag # {}
            /\ \A n \in noFlag : \A j \in 1..Len(TemplateLines[n]) :
                 LET p == TemplateLines[n][j] IN
                 IsField(p) =>
                     /\ HasAttr(registry, p.grp, p.key)
                     /\ registry[p.grp][p.key]
                            = registry.DataSources.DATABASE_ENTRIES
                     /\ NumLookups(i, "DataSources", "DATABASE_ENTRIES") >= 1

\* C10: every attribute lookup made by print_usage() is of a key its group
\* defines; AnalysisTypes has exactly the keys DOMI and AGA.
C10_EveryLookupDefined ==
    /\ DOMAIN registry.AnalysisTypes = { "DOMI", "AGA" }
    /\ \A i \in Calls : \A j \in 1..Len(outcomes[i].lookups) :
         HasAttr(registry, outcomes[i].lookups[j].grp,
                 outcomes[i].lookups[j].key)

====
